---- MODULE Spec2Model ----
(***************************************************************************)
(* A model of async_pcloud's PyCloudAsync client (src/src/async_pcloud/    *)
(* api.py): the connection lifecycle (connect, disconnect, __aenter__,     *)
(* __aexit__), the credentials (change_token) and the request pipeline     *)
(* (_do_request, _default_get) with the operations built on it.            *)
(*                                                                         *)
(* Python strings whose contents the code inspects (paths, error texts,    *)
(* tokens) are sequences of one-character strings; "" and None, which the  *)
(* code only ever tests for truth, are both the empty sequence.  A dict is *)
(* a function from key names to such strings.                              *)
(***************************************************************************)
EXTENDS Integers, Sequences, FiniteSets, TLC

\* Sessions one client may create in a run (aiohttp.ClientSession objects).
MaxSessions == 2

\* Cooperative tasks of the asynchronous specification.
MaxTasks == 2

VARIABLES
    token,          \* self.token
    session,        \* self.session: NoSession (None) or a session's identity
    created,        \* how many ClientSession objects connect() has created
    closed,         \* the sessions whose close() has taken effect
    defaultParams,  \* the dict object that is _do_request's default for params
    scope,          \* [active, opened]: the "async with" block in progress
    last,           \* what the most recent operation did, as its caller sees it
    tasks,          \* asynchronous specification: each task's position
    race            \* asynchronous specification: what the interleaving did

vars == <<token, session, created, closed, defaultParams, scope, last, tasks, race>>

----------------------------------------------------------------------------
\* Strings and dicts

NoSession == 0
NoToken == <<>>
TokenA == <<"A">>
TokenB == <<"B">>
TokenValues == {NoToken, TokenA, TokenB}

EmptyDict == [k \in {} |-> <<>>]

\* dict.update(other)
DictUpdate(d, other) ==
    [k \in DOMAIN d \cup DOMAIN other |-> IF k \in DOMAIN other THEN other[k] ELSE d[k]]

\* d[key] = value
DictSet(d, key, value) ==
    [k \in DOMAIN d \cup {key} |-> IF k = key THEN value ELSE d[k]]

\* str.startswith(prefix)
StartsWith(s, prefix) ==
    /\ Len(s) >= Len(prefix)
    /\ SubSeq(s, 1, Len(prefix)) = prefix

\* needle in hay
Contains(needle, hay) ==
    \E i \in 1..(Len(hay) - Len(needle) + 1) : SubSeq(hay, i, i + Len(needle) - 1) = needle

\* Python truth of a string or None
Truthy(v) == v # <<>>

----------------------------------------------------------------------------
\* The values the operations are called with and the server answers with

PathEmpty == <<>>
PathRelative == <<"a">>
PathAbsolute == <<"/", "a">>
SamplePaths == {PathEmpty, PathRelative, PathAbsolute}

One == <<"1">>
ForeignAuth == <<"X">>

NotFoundText == <<"n", "o", "t", " ", "f", "o", "u", "n", "d">>
UnknownError == <<"U", "n", "k", "n", "o", "w", "n", " ", "e", "r", "r", "o", "r">>
FileNotFound == <<"F", "i", "l", "e", " ", "n", "o", "t", " ", "f", "o", "u", "n", "d">>
AccessDenied == <<"A", "c", "c", "e", "s", "s", " ", "d", "e", "n", "i", "e", "d">>
PathNotFoundCaps == <<"P", "a", "t", "h", " ", "N", "o", "t", " ", "F", "o", "u", "n", "d">>
Https == <<"h", "t", "t", "p", "s", ":", "/", "/">>
LinkHost == <<"h">>
LinkPath == <<"/", "f">>
Digest == <<"d">>
FileBytes == <<"b">>

\* A response: whether its body parses as JSON, and the parsed object.
Response(json, body) == [json |-> json, body |-> body]

RespOk == Response(TRUE, "result" :> 0)
RespFull ==
    Response(TRUE, ("result" :> 0) @@ ("auth" :> TokenB) @@ ("digest" :> Digest)
                   @@ ("hosts" :> <<LinkHost>>) @@ ("path" :> LinkPath))
RespNotFound == Response(TRUE, ("result" :> 2009) @@ ("error" :> FileNotFound))
RespNotFoundCaps == Response(TRUE, ("result" :> 2005) @@ ("error" :> PathNotFoundCaps))
RespDenied == Response(TRUE, ("result" :> 2003) @@ ("error" :> AccessDenied))
RespNoError == Response(TRUE, "result" :> 5000)
RespNoResult == Response(TRUE, "Error" :> FileNotFound)
RespText == Response(FALSE, "text" :> FileBytes)
NoResponse == Response(FALSE, EmptyDict)

Responses ==
    {RespOk, RespFull, RespNotFound, RespNotFoundCaps, RespDenied, RespNoError,
     RespNoResult, RespText}

\* The keyword arguments of one call: kw holds the request parameters passed
\* as keywords, params the params= dict (hasParams: whether it was passed),
\* authKw the auth= keyword ("absent", "True" or "False"), not_found_ok and
\* data whether those keywords were passed (not_found_ok=True, data=<body>).
Args(kw, hasParams, params, authKw, not_found_ok, data) ==
    [kw |-> kw, hasParams |-> hasParams, params |-> params, authKw |-> authKw,
     not_found_ok |-> not_found_ok, data |-> data]

Kw(kw) == Args(kw, FALSE, EmptyDict, "absent", FALSE, FALSE)
NoArgs == Kw(EmptyDict)

----------------------------------------------------------------------------
\* The request pipeline

_fix_path(path) ==
    IF ~StartsWith(path, <<"/">>) THEN <<"/">> \o path ELSE path

redact_auth(data) ==
    IF "auth" \in DOMAIN data THEN DictSet(data, "auth", <<"*", "*", "*">>) ELSE data

\* One HTTP exchange as the session is asked to make it.
Request(method, url, params, data) ==
    [session |-> session, method |-> method, url |-> url, params |-> params, data |-> data]

NoError == [route |-> "", method |-> "", code |-> 0, error |-> <<>>]

\* What one invocation of _do_request did: how it ended (out), the exchange
\* it issued (reqs: none or one), the dict it returned (ret) or the error it
\* raised (err), and the params dict as lines 59-61 left it (mutated: whether
\* they ran; shared: whether it is the default's dict object).
Call(url, auth, method, nfok, out, reqs, ret, err, mutated, params) ==
    [url |-> url, auth |-> auth, method |-> method, not_found_ok |-> nfok, out |-> out,
     reqs |-> reqs, ret |-> ret, err |-> err, mutated |-> mutated, params |-> params,
     shared |-> FALSE]

NoCall == Call("", FALSE, "", FALSE, "none", <<>>, EmptyDict, NoError, FALSE, EmptyDict)

\* The parameters of the request, were the token only a default for auth
RequestParamsKeepingAuth(auth, params, kwargs) ==
    LET merged == DictUpdate(params, kwargs)
        signed == IF auth /\ "auth" \notin DOMAIN merged
                  THEN DictSet(merged, "auth", token) ELSE merged
    IN  IF "path" \in DOMAIN signed /\ Truthy(signed["path"])
        THEN DictSet(signed, "path", _fix_path(signed["path"]))
        ELSE signed

\* Lines 59-61: the parameters of the request.
RequestParams(auth, params, kwargs) ==
    LET merged == DictUpdate(params, kwargs)
        signed == IF auth THEN DictSet(merged, "auth", token) ELSE merged
    IN  IF "path" \in DOMAIN signed /\ Truthy(signed["path"])
        THEN DictSet(signed, "path", _fix_path(signed["path"]))
        ELSE signed

\* The tolerance, were the error text not looked at
NotFoundToleratedWhateverError(not_found_ok, error) == not_found_ok

\* not_found_ok and 'not found' in error
NotFoundTolerated(not_found_ok, error) ==
    not_found_ok /\ Contains(NotFoundText, error)

\* Lines 63-70: the response read and interpreted.
Interpret(url, auth, method, nfok, req, params, resp) ==
    LET done(out, ret, err) ==
            Call(url, auth, method, nfok, out, <<req>>, ret, err, TRUE, params)
    IN  IF session \in closed THEN done("SessionClosed", EmptyDict, NoError)
        ELSE IF ~resp.json THEN done("MalformedResponse", EmptyDict, NoError)
        ELSE IF "result" \notin DOMAIN resp.body THEN done("KeyError", EmptyDict, NoError)
        ELSE IF resp.body["result"] # 0
        THEN LET error == IF "error" \in DOMAIN resp.body
                          THEN resp.body["error"] ELSE UnknownError
             IN  IF NotFoundTolerated(nfok, error)
                 THEN done("Returned", EmptyDict, NoError)
                 ELSE done("RemoteAPIError", EmptyDict,
                           [route |-> url, method |-> method,
                            code |-> resp.body["result"], error |-> error])
        ELSE done("Returned", resp.body, NoError)

\* The credentials check, were it made of every call
MissingTokenWhateverAuth(auth) == token = NoToken

\* if not self.token and auth: raise
MissingToken(auth) == token = NoToken /\ auth

\* The connection check, were it left out
NotConnectedUnchecked == FALSE

\* if not self.session: raise
NotConnected == session = NoSession

\* _do_request(url, auth, method, data, params, not_found_ok, **kwargs), the
\* server answering resp.  hasParams: whether params was passed; when it was
\* not, params is the default's dict object.
_do_request(url, auth, method, data, hasParams, passed, not_found_ok, kwargs, resp) ==
    LET params == IF hasParams THEN passed ELSE defaultParams
        raise(out) ==
            Call(url, auth, method, not_found_ok, out, <<>>, EmptyDict, NoError, FALSE, params)
        c == IF MissingToken(auth) THEN raise("MissingCredentials")
             ELSE IF NotConnected THEN raise("NotConnected")
             ELSE LET sent == RequestParams(auth, params, kwargs)
                  IN  Interpret(url, auth, method, not_found_ok,
                                Request(method, url, sent, data), sent, resp)
    IN  [c EXCEPT !.shared = ~hasParams]

\* self._do_request(url, **kwargs) with a call's keyword arguments, after the
\* caller's own keywords (method, data).
Forward(url, method, data, args, resp) ==
    _do_request(url, args.authKw # "False", method, data, args.hasParams, args.params,
                args.not_found_ok, args.kw, resp)

----------------------------------------------------------------------------
\* The operations.  Each is what one invocation does in the current state,
\* the server answering resp: how it ended (out), what it returned (ret),
\* its invocation of _do_request (call; reached: whether there was one) and
\* the exchanges it issued (reqs).

Result(out, ret, reached, call, reqs) ==
    [out |-> out, ret |-> ret, reached |-> reached, call |-> call, reqs |-> reqs]

\* return await self._do_request(...)
FromCall(c) == Result(c.out, c.ret, TRUE, c, c.reqs)

\* The keys a call supplies, as keywords or inside params=.
Supplied(args) ==
    DOMAIN args.kw \cup (IF args.data THEN {"data"} ELSE {})
                   \cup (IF args.hasParams THEN DOMAIN args.params ELSE {})

\* async_pcloud.validate.RequiredParameterCheck(required): whether the call
\* supplies one of the alternatives.
RequiredParameterCheck(required, args) == required \cap Supplied(args) # {}

MissingRequiredParameter ==
    Result("MissingRequiredParameter", EmptyDict, FALSE, NoCall, <<>>)

_default_get(url) ==
    IF NotConnected THEN Result("NotConnected", <<>>, FALSE, NoCall, <<>>)
    ELSE IF session \in closed
    THEN Result("SessionClosed", <<>>, FALSE, NoCall, <<Request("GET", url, EmptyDict, FALSE)>>)
    ELSE Result("Returned", FileBytes, FALSE, NoCall, <<Request("GET", url, EmptyDict, FALSE)>>)

getdigest(resp) ==
    LET c == _do_request("getdigest", FALSE, "GET", FALSE, FALSE, EmptyDict, FALSE, EmptyDict, resp)
    IN  IF c.out # "Returned" THEN FromCall(c)
        ELSE IF "digest" \notin DOMAIN c.ret THEN Result("KeyError", <<>>, TRUE, c, c.reqs)
        ELSE Result("Returned", c.ret["digest"], TRUE, c, c.reqs)

userinfo(args, resp) == FromCall(Forward("userinfo", "GET", args.data, args, resp))

get_pcloud_token(email, password, resp) ==
    LET login == ("getauth" :> One) @@ ("username" :> email) @@ ("password" :> password)
        r == userinfo(Args(EmptyDict, TRUE, login, "False", FALSE, FALSE), resp)
    IN  IF r.out # "Returned" THEN r
        ELSE IF "auth" \notin DOMAIN r.ret THEN Result("KeyError", <<>>, TRUE, r.call, r.reqs)
        ELSE Result("Returned", r.ret["auth"], TRUE, r.call, r.reqs)

\* listfolder's alternatives, were they getfilelink's
listfolderRequiredAsForFiles == {"path", "fileid"}

listfolderRequired == {"path", "folderid"}

listfolder(args, resp) ==
    IF ~RequiredParameterCheck(listfolderRequired, args) THEN MissingRequiredParameter
    ELSE FromCall(Forward("listfolder", "GET", args.data, args, resp))

getfilelinkRequired == {"path", "fileid"}

getfilelink(args, resp) ==
    IF ~RequiredParameterCheck(getfilelinkRequired, args) THEN MissingRequiredParameter
    ELSE LET c == Forward("getfilelink", "GET", args.data, args, resp)
         IN  IF c.out # "Returned" THEN FromCall(c)
             ELSE IF DOMAIN c.ret = {} THEN Result("Returned", <<>>, TRUE, c, c.reqs)
             ELSE IF ~({"hosts", "path"} \subseteq DOMAIN c.ret)
             THEN Result("KeyError", <<>>, TRUE, c, c.reqs)
             ELSE Result("Returned", Https \o c.ret["hosts"][1] \o c.ret["path"], TRUE, c, c.reqs)

get_all_links(fileid, resp) ==
    FromCall(_do_request("getfilelink", TRUE, "GET", FALSE, TRUE, "fileid" :> fileid,
                         FALSE, EmptyDict, resp))

download_fileRequired == {"path", "fileid"}

download_file(args, resp) ==
    IF ~RequiredParameterCheck(download_fileRequired, args) THEN MissingRequiredParameter
    ELSE LET link == getfilelink(args, resp)
         IN  IF link.out # "Returned" \/ link.ret = <<>> THEN link
             ELSE LET got == _default_get(link.ret)
                  IN  Result(got.out, got.ret, TRUE, link.call, link.reqs \o got.reqs)

uploadfileRequired == {"files", "data"}

uploadfile(args, resp) ==
    IF ~RequiredParameterCheck(uploadfileRequired, args) THEN MissingRequiredParameter
    ELSE LET c == Forward("uploadfile", "POST", args.data, args, resp)
         IN  Result(c.out, <<>>, TRUE, c, c.reqs)

upload_one_fileRequired == {"path", "folderid"}

\* self.uploadfile(data=data, **kwargs): a data keyword among kwargs is a
\* second value for data.
upload_one_file(filename, content, args, resp) ==
    IF ~RequiredParameterCheck(upload_one_fileRequired, args) THEN MissingRequiredParameter
    ELSE IF args.data THEN Result("TypeError", <<>>, FALSE, NoCall, <<>>)
    ELSE uploadfile([args EXCEPT !.data = TRUE], resp)

\* params={'query': query, **kwargs}: every keyword becomes a parameter.
search(query, kwargs, resp) ==
    FromCall(_do_request("search", TRUE, "GET", FALSE, TRUE,
                         DictUpdate("query" :> query, kwargs), FALSE, EmptyDict, resp))

stat(args, resp) == FromCall(Forward("stat", "GET", args.data, args, resp))

invite(args, resp) == FromCall(Forward("invite", "GET", args.data, args, resp))

userinvites(args, resp) == FromCall(Forward("userinvites", "GET", args.data, args, resp))

logout(args, resp) == FromCall(Forward("logout", "GET", args.data, args, resp))

listtokens(args, resp) == FromCall(Forward("listtokens", "GET", args.data, args, resp))

deletetoken(args, resp) == FromCall(Forward("deletetoken", "GET", args.data, args, resp))

----------------------------------------------------------------------------
\* The state after construction, and one action per operation

\* A task that is in no operation
Idle ==
    [pc |-> "idle", held |-> NoSession,
     pending |-> [op |-> "", args |-> NoArgs, resp |-> NoResponse, out |-> "none", ret |-> <<>>,
                  reached |-> FALSE, call |-> NoCall, reqs |-> <<>>]]

\* onClosed: a request was issued on a session already closed; clearedOther:
\* a disconnect set self.session to None when it held another session than
\* the one it closed
NoRace == [onClosed |-> FALSE, clearedOther |-> FALSE]

\* What a caller sees of an operation that issues no request.
Lifecycle(op, out) ==
    [op |-> op, args |-> NoArgs, resp |-> NoResponse, out |-> out, ret |-> <<>>,
     reached |-> FALSE, call |-> NoCall, reqs |-> <<>>]

\* What a caller sees of a data operation that ended as r.
Observe(op, args, resp, r) ==
    [op |-> op, args |-> args, resp |-> IF Len(r.reqs) = 0 THEN NoResponse ELSE resp,
     out |-> r.out, ret |-> r.ret, reached |-> r.reached, call |-> r.call, reqs |-> r.reqs]

Init ==
    /\ token \in TokenValues
    /\ session = NoSession
    /\ created = 0
    /\ closed = {}
    /\ defaultParams = EmptyDict
    /\ scope = [active |-> FALSE, opened |-> NoSession]
    /\ last = Lifecycle("__init__", "Returned")
    /\ tasks = [t \in 1..MaxTasks |-> Idle]
    /\ race = NoRace

\* self.session = aiohttp.ClientSession(...)
NewSession ==
    /\ created < MaxSessions
    /\ created' = created + 1
    /\ session' = created + 1

\* disconnect's body, run without interruption
CloseSession ==
    IF session = NoSession
    THEN UNCHANGED <<session, closed>>
    ELSE /\ closed' = closed \cup {session}
         /\ session' = NoSession

connect ==
    /\ NewSession
    /\ last' = Lifecycle("connect", "Returned")
    /\ UNCHANGED <<token, closed, defaultParams, scope, tasks, race>>

disconnect ==
    /\ CloseSession
    /\ last' = Lifecycle("disconnect", "Returned")
    /\ UNCHANGED <<token, created, defaultParams, scope, tasks, race>>

\* One block at a time is followed: scope.opened is the session it opened.
__aenter__ ==
    /\ ~scope.active
    /\ NewSession
    /\ scope' = [active |-> TRUE, opened |-> session']
    /\ last' = Lifecycle("__aenter__", "Returned")
    /\ UNCHANGED <<token, closed, defaultParams, tasks, race>>

\* exc: whether the block's body raised (an error of the client or any
\* other); __aexit__ returns None, so it is raised again
__aexit__(exc) ==
    /\ scope.active
    /\ CloseSession
    /\ scope' = [scope EXCEPT !.active = FALSE]
    /\ last' = Lifecycle("__aexit__", IF exc THEN "Reraised" ELSE "Returned")
    /\ UNCHANGED <<token, created, defaultParams, tasks, race>>

change_token(t) ==
    /\ token' = t
    /\ last' = Lifecycle("change_token", "Returned")
    /\ UNCHANGED <<session, created, closed, defaultParams, scope, tasks, race>>

\* A data operation called and run to its end: params.update and the two
\* assignments after it change the default's dict when that is the dict used.
Apply(op, args, resp, r) ==
    /\ last' = Observe(op, args, resp, r)
    /\ defaultParams' =
           IF r.call.mutated /\ r.call.shared THEN r.call.params ELSE defaultParams
    /\ UNCHANGED <<token, session, created, closed, scope, tasks, race>>

Call_default_get(url) == Apply("_default_get", NoArgs, NoResponse, _default_get(url))

Call_getdigest(resp) == Apply("getdigest", NoArgs, resp, getdigest(resp))

Call_userinfo(args, resp) == Apply("userinfo", args, resp, userinfo(args, resp))

Call_get_pcloud_token(email, password, resp) ==
    Apply("get_pcloud_token", NoArgs, resp, get_pcloud_token(email, password, resp))

Call_listfolder(args, resp) == Apply("listfolder", args, resp, listfolder(args, resp))

Call_getfilelink(args, resp) == Apply("getfilelink", args, resp, getfilelink(args, resp))

Call_get_all_links(fileid, resp) ==
    Apply("get_all_links", NoArgs, resp, get_all_links(fileid, resp))

Call_download_file(args, resp) ==
    Apply("download_file", args, resp, download_file(args, resp))

Call_uploadfile(args, resp) == Apply("uploadfile", args, resp, uploadfile(args, resp))

Call_upload_one_file(filename, content, args, resp) ==
    Apply("upload_one_file", args, resp, upload_one_file(filename, content, args, resp))

Call_search(query, kwargs, resp) ==
    Apply("search", Kw(kwargs), resp, search(query, kwargs, resp))

Call_stat(args, resp) == Apply("stat", args, resp, stat(args, resp))

Call_invite(args, resp) == Apply("invite", args, resp, invite(args, resp))

Call_userinvites(args, resp) == Apply("userinvites", args, resp, userinvites(args, resp))

Call_logout(args, resp) == Apply("logout", args, resp, logout(args, resp))

Call_listtokens(args, resp) == Apply("listtokens", args, resp, listtokens(args, resp))

Call_deletetoken(args, resp) == Apply("deletetoken", args, resp, deletetoken(args, resp))

\* The connection and credentials operations
Connection ==
    \/ connect
    \/ disconnect
    \/ \E t \in TokenValues : change_token(t)

\* The scoped use of the client
Scoped ==
    \/ __aenter__
    \/ \E exc \in BOOLEAN : __aexit__(exc)

\* The operations behind a required-parameter check, called with arguments
\* among A and answered among R
Guarded(A, R) ==
    \/ \E args \in A, resp \in R : Call_listfolder(args, resp)
    \/ \E args \in A, resp \in R : Call_getfilelink(args, resp)
    \/ \E args \in A, resp \in R : Call_download_file(args, resp)
    \/ \E args \in A, resp \in R : Call_uploadfile(args, resp)
    \/ \E args \in A, resp \in R : Call_upload_one_file(One, FileBytes, args, resp)

\* The other data operations
Unguarded(A, R) ==
    \/ Call_default_get(Https \o LinkHost \o LinkPath)
    \/ \E resp \in R : Call_getdigest(resp)
    \/ \E resp \in R : Call_get_pcloud_token(One, One, resp)
    \/ \E resp \in R : Call_get_all_links(One, resp)
    \/ \E kwargs \in {a.kw : a \in A} \cup {"auth" :> ForeignAuth}, resp \in R :
           Call_search(One, kwargs, resp)
    \/ \E args \in A, resp \in R : Call_userinfo(args, resp)
    \/ \E args \in A, resp \in R : Call_stat(args, resp)
    \/ \E args \in A, resp \in R : Call_invite(args, resp)
    \/ \E args \in A, resp \in R : Call_userinvites(args, resp)
    \/ \E args \in A, resp \in R : Call_logout(args, resp)
    \/ \E args \in A, resp \in R : Call_listtokens(args, resp)
    \/ \E args \in A, resp \in R : Call_deletetoken(args, resp)

\* Calls: no argument, a path, a body, a params dict carrying an auth entry,
\* auth=False
BasicArgs ==
    {NoArgs,
     Kw("path" :> PathRelative),
     Kw("path" :> PathEmpty),
     Args(EmptyDict, FALSE, EmptyDict, "absent", FALSE, TRUE),
     Args(EmptyDict, TRUE, "auth" :> ForeignAuth, "absent", FALSE, FALSE),
     Args(EmptyDict, FALSE, EmptyDict, "False", FALSE, FALSE)}

\* Calls supplying none, one or two of the keys the checks name, as keywords
\* or inside params=
GuardArgs ==
    {NoArgs,
     Kw("path" :> PathRelative),
     Kw("folderid" :> One),
     Kw("fileid" :> One),
     Kw("files" :> One),
     Args(EmptyDict, FALSE, EmptyDict, "absent", FALSE, TRUE),
     Args("path" :> PathAbsolute, FALSE, EmptyDict, "absent", FALSE, TRUE),
     Args(EmptyDict, TRUE, "path" :> PathRelative, "absent", FALSE, FALSE),
     Args(EmptyDict, TRUE, "fileid" :> One, "absent", FALSE, FALSE),
     Args(EmptyDict, TRUE, EmptyDict, "False", FALSE, FALSE)}

\* Calls with and without not_found_ok
EnvelopeArgs ==
    {Kw("path" :> PathAbsolute),
     Args("path" :> PathAbsolute, FALSE, EmptyDict, "absent", TRUE, FALSE)}

\* One client used by one caller, every operation run to its end
Next == Connection \/ Unguarded(BasicArgs, {RespFull}) \/ Guarded(BasicArgs, {RespFull})

Spec == Init /\ [][Next]_vars

\* Calls made inside and outside an "async with" block, which succeed or fail
ScopeArgs == {NoArgs, Kw("path" :> PathRelative)}

\* The client used through "async with" as well
NextScope ==
    \/ Connection
    \/ Scoped
    \/ Unguarded(ScopeArgs, {RespFull, RespDenied})
    \/ Guarded(ScopeArgs, {RespFull, RespDenied})

SpecScope == Init /\ [][NextScope]_vars

\* The operations behind a required-parameter check
NextGuard == Connection \/ Guarded(GuardArgs, {RespFull})

SpecGuard == Init /\ [][NextGuard]_vars

\* Every answer of the server
NextEnvelope ==
    Connection \/ Unguarded(EnvelopeArgs, Responses) \/ Guarded(EnvelopeArgs, Responses)

SpecEnvelope == Init /\ [][NextEnvelope]_vars

----------------------------------------------------------------------------
\* Cooperative tasks on one client: an operation runs without interruption
\* from one await to the next, and other tasks run while it is suspended.

Tasks == 1..MaxTasks

\* connect() awaits nothing
TaskConnect(t) ==
    /\ tasks[t].pc = "idle"
    /\ NewSession
    /\ last' = Lifecycle("connect", "Returned")
    /\ UNCHANGED <<token, closed, defaultParams, scope, tasks, race>>

\* disconnect() up to its suspension in await self.session.close();
\* closeNow: whether the session is closed by then, or only when close() ends
TaskDisconnectBegin(t, closeNow) ==
    /\ tasks[t].pc = "idle"
    /\ IF session = NoSession
       THEN /\ last' = Lifecycle("disconnect", "Returned")
            /\ UNCHANGED <<closed, tasks>>
       ELSE /\ tasks' = [tasks EXCEPT ![t] = [Idle EXCEPT !.pc = "closing", !.held = session]]
            /\ closed' = IF closeNow THEN closed \cup {session} ELSE closed
            /\ UNCHANGED last
    /\ UNCHANGED <<token, session, created, defaultParams, scope, race>>

\* disconnect() resumed: close() has ended; self.session = None
TaskDisconnectEnd(t) ==
    /\ tasks[t].pc = "closing"
    /\ closed' = closed \cup {tasks[t].held}
    /\ race' = [race EXCEPT !.clearedOther =
                                @ \/ (session # NoSession /\ session # tasks[t].held)]
    /\ session' = NoSession
    /\ tasks' = [tasks EXCEPT ![t] = Idle]
    /\ last' = Lifecycle("disconnect", "Returned")
    /\ UNCHANGED <<token, created, defaultParams, scope>>

\* stat(**kwargs) up to its suspension in self.session.request(...): the
\* checks, the parameters, the request handed to the session.  A closed
\* session refuses the request at once.
TaskRequestBegin(t, args, resp) ==
    /\ tasks[t].pc = "idle"
    /\ LET r == stat(args, resp)
           seen == Observe("stat", args, resp, r)
       IN  /\ defaultParams' =
                  IF r.call.mutated /\ r.call.shared THEN r.call.params ELSE defaultParams
           /\ race' = [race EXCEPT !.onClosed = @ \/ (Len(r.reqs) > 0 /\ session \in closed)]
           /\ IF Len(r.reqs) = 0 \/ r.out = "SessionClosed"
              THEN /\ last' = seen
                   /\ UNCHANGED tasks
              ELSE /\ tasks' = [tasks EXCEPT ![t] =
                                   [pc |-> "awaiting", held |-> session, pending |-> seen]]
                   /\ UNCHANGED last
    /\ UNCHANGED <<token, session, created, closed, scope>>

\* stat() resumed: the response is read, unless the session was closed under
\* the exchange and the connection was lost with it
TaskRequestEnd(t, lost) ==
    /\ tasks[t].pc = "awaiting"
    /\ lost => tasks[t].held \in closed
    /\ last' = IF lost
               THEN [tasks[t].pending EXCEPT !.out = "ConnectionLost", !.ret = EmptyDict]
               ELSE tasks[t].pending
    /\ tasks' = [tasks EXCEPT ![t] = Idle]
    /\ UNCHANGED <<token, session, created, closed, defaultParams, scope, race>>

NextAsync ==
    \/ \E t \in Tasks : TaskConnect(t)
    \/ \E t \in Tasks, closeNow \in BOOLEAN : TaskDisconnectBegin(t, closeNow)
    \/ \E t \in Tasks : TaskDisconnectEnd(t)
    \/ \E t \in Tasks : TaskRequestBegin(t, Kw("path" :> PathRelative), RespFull)
    \/ \E t \in Tasks, lost \in BOOLEAN : TaskRequestEnd(t, lost)

SpecAsync == Init /\ [][NextAsync]_vars

----------------------------------------------------------------------------
\* The properties.  In a state reached by a data operation, token and
\* session are what they were when it was invoked: no data operation
\* changes them, and every other operation records itself in last.

PassThroughOps ==
    {"userinfo", "stat", "invite", "userinvites", "logout", "listtokens", "deletetoken"}

GuardedOps == {"listfolder", "getfilelink", "download_file", "uploadfile", "upload_one_file"}

DataOps ==
    PassThroughOps \cup GuardedOps
        \cup {"_default_get", "getdigest", "get_pcloud_token", "get_all_links", "search"}

AfterDataOp == last.op \in DataOps

Disconnected == session = NoSession

NoExchange == Len(last.reqs) = 0

\* Whether the operation invoked asks _do_request for authentication
RequiresAuth ==
    /\ last.op \notin {"_default_get", "getdigest", "get_pcloud_token"}
    /\ last.args.authKw # "False"

\* The alternatives each checked operation names
Alternatives ==
    [op \in GuardedOps |->
        CASE op = "listfolder" -> {"path", "folderid"}
          [] op = "getfilelink" -> {"path", "fileid"}
          [] op = "download_file" -> {"path", "fileid"}
          [] op = "uploadfile" -> {"files", "data"}
          [] op = "upload_one_file" -> {"path", "folderid"}]

SuppliedAlternatives == Alternatives[last.op] \cap Supplied(last.args)

\* The keys the caller of the last operation supplied
CallerKeys ==
    CASE last.op = "search" -> {"query"} \cup DOMAIN last.args.kw
      [] last.op = "get_all_links" -> {"fileid"}
      [] last.op = "get_pcloud_token" -> {"getauth", "username", "password"}
      [] OTHER -> DOMAIN last.args.kw
                      \cup (IF last.args.hasParams THEN DOMAIN last.args.params ELSE {})

\* C1 as stated: a data operation invoked while the client is Disconnected
\* fails with NotConnected and issues no HTTP exchange, whatever the token
\* and the parameters.
C1_DisconnectedAlwaysNotConnected ==
    (AfterDataOp /\ Disconnected) => (last.out = "NotConnected" /\ NoExchange)

\* C1 as amended: a data operation invoked while the client is Disconnected
\* issues no HTTP exchange and fails; it fails with NotConnected exactly when
\* it gets as far as the connection check: always for _default_get, and for a
\* call that reaches _do_request unless that call requires authentication
\* while no token is set, which fails with MissingCredentials, the check made
\* first.  A call that does not reach _do_request failed the required-
\* parameter check or the binding of its keywords.
C1_DisconnectedFails ==
    (AfterDataOp /\ Disconnected) =>
        /\ NoExchange
        /\ last.out \in {"NotConnected", "MissingCredentials", "MissingRequiredParameter",
                         "TypeError"}
        /\ (last.out = "MissingCredentials")
               = (last.reached /\ last.call.auth /\ token = NoToken)
        /\ (last.out = "NotConnected")
               = (\/ last.op = "_default_get"
                  \/ last.reached /\ ~(last.call.auth /\ token = NoToken))

\* C1's case: after a connect and a disconnect, an authenticated call with a
\* token set has failed with NotConnected.
C1_Witness ==
    /\ AfterDataOp /\ Disconnected /\ created > 0
    /\ last.reached /\ last.call.auth /\ token # NoToken
    /\ last.out = "NotConnected"

\* C2 as stated: an operation that requires authentication, invoked while no
\* token is set, fails with MissingCredentials and issues no HTTP exchange,
\* whatever the other parameters and the connection state; an operation that
\* does not require it never fails with MissingCredentials.
C2_NoTokenAlwaysMissingCredentials ==
    /\ (AfterDataOp /\ RequiresAuth /\ token = NoToken)
           => (last.out = "MissingCredentials" /\ NoExchange)
    /\ (AfterDataOp /\ ~RequiresAuth) => last.out # "MissingCredentials"

\* C2 as amended: a call that reaches _do_request requiring authentication
\* while no token is set fails with MissingCredentials and issues no HTTP
\* exchange, whatever the other parameters and the connection state; one that
\* does not reach it failed the required-parameter check or the binding of
\* its keywords, and issued no exchange either; an operation that does not
\* require authentication never fails with MissingCredentials.
C2_NoTokenMissingCredentials ==
    /\ (AfterDataOp /\ RequiresAuth /\ token = NoToken) =>
           /\ NoExchange
           /\ last.reached => last.out = "MissingCredentials"
           /\ ~last.reached => last.out \in {"MissingRequiredParameter", "TypeError"}
    /\ (AfterDataOp /\ ~RequiresAuth) => last.out # "MissingCredentials"

\* C2's case: a connected client without a token has refused an
\* authenticated call.
C2_Witness ==
    /\ AfterDataOp /\ RequiresAuth /\ token = NoToken /\ ~Disconnected
    /\ last.out = "MissingCredentials"

\* Whether text holds "not found", character by character
HoldsNotFound(text) ==
    \E i \in 1..Len(text) :
        \A j \in 1..Len(NotFoundText) :
            i + j - 1 <= Len(text) /\ text[i + j - 1] = NotFoundText[j]

\* C3: of a response envelope a call received, result 0 is returned whole; a
\* nonzero result is returned as the empty payload when the call tolerates
\* not-found and the error text contains "not found", and otherwise raised as
\* a RemoteAPIError carrying the route, the method, the code and the error
\* text; a call that raises returns nothing.
C3_EnvelopeInterpreted ==
    LET c == last.call
        body == last.resp.body
        text == IF "error" \in DOMAIN body THEN body["error"] ELSE UnknownError
    IN  (AfterDataOp /\ last.reached /\ Len(c.reqs) > 0
            /\ last.resp.json /\ "result" \in DOMAIN body) =>
            IF body["result"] = 0
            THEN c.out = "Returned" /\ c.ret = body /\ c.err = NoError
            ELSE IF c.not_found_ok /\ "error" \in DOMAIN body /\ HoldsNotFound(body["error"])
            THEN c.out = "Returned" /\ DOMAIN c.ret = {} /\ c.err = NoError
            ELSE /\ c.out = "RemoteAPIError"
                 /\ DOMAIN c.ret = {}
                 /\ c.err = [route |-> c.url, method |-> c.method,
                             code |-> body["result"], error |-> text]

\* C3's case: a tolerant call has turned "File not found" into the empty
\* payload.
C3_Witness ==
    /\ AfterDataOp /\ last.reached /\ Len(last.call.reqs) > 0
    /\ last.resp = RespNotFound /\ last.call.not_found_ok
    /\ last.call.out = "Returned" /\ DOMAIN last.call.ret = {}

\* The sessions created and not closed
LiveSessions == (1..created) \ closed

\* C4: at most one session created by the client is live.
C4_AtMostOneLiveSession == Cardinality(LiveSessions) <= 1

\* C5: when a scoped use has exited, the client is Disconnected and the
\* session the scope opened is closed.
C5_ScopeReleasesItsSession ==
    last.op = "__aexit__" => (Disconnected /\ scope.opened \in closed)

\* C6: a request of a call that requires authentication carries under auth
\* the token current when it is built, whatever auth entry the caller put in
\* params and whatever token an earlier request carried.
C6_RequestCarriesCurrentToken ==
    (AfterDataOp /\ last.reached /\ last.call.auth) =>
        \A i \in 1..Len(last.call.reqs) :
            /\ "auth" \in DOMAIN last.call.reqs[i].params
            /\ last.call.reqs[i].params["auth"] = token

\* C6's case: an authenticated request has gone out from a call whose params
\* dict carried a foreign auth entry, after the default's dict came to hold
\* another token.
C6_Witness ==
    /\ AfterDataOp /\ last.reached /\ last.call.auth /\ Len(last.call.reqs) = 1
    /\ "auth" \in CallerKeys
    /\ "auth" \in DOMAIN defaultParams /\ defaultParams["auth"] # token

\* C7: a path sent in a request begins with "/"; one supplied with a leading
\* "/" is sent unchanged and any other with one "/" before it; normalizing
\* what is sent changes nothing.
C7_PathSentNormalized ==
    AfterDataOp =>
        \A i \in 1..Len(last.call.reqs) :
            LET sent == last.call.reqs[i].params
                given == IF "path" \in DOMAIN last.args.kw THEN last.args.kw["path"]
                         ELSE last.args.params["path"]
            IN  "path" \in DOMAIN sent =>
                    /\ StartsWith(sent["path"], <<"/">>)
                    /\ _fix_path(sent["path"]) = sent["path"]
                    /\ "path" \in CallerKeys =>
                           sent["path"] = IF Len(given) > 0 /\ given[1] = "/"
                                          THEN given ELSE <<"/">> \o given

\* C8 as stated: a checked operation called with none of its alternatives
\* fails with MissingRequiredParameter before the credentials and connection
\* checks and before any HTTP exchange; called with exactly one, it passes
\* the check and proceeds to _do_request.
C8_CheckThenPipeline ==
    (AfterDataOp /\ last.op \in GuardedOps) =>
        /\ SuppliedAlternatives = {} =>
               (last.out = "MissingRequiredParameter" /\ ~last.reached /\ NoExchange)
        /\ Cardinality(SuppliedAlternatives) = 1 => last.reached

\* C8 as amended: as stated, except that a call with exactly one alternative
\* proceeds to _do_request only if its keywords can be bound: upload_one_file
\* given a data keyword passes the check and fails with a TypeError, data
\* being the keyword it passes to uploadfile itself.
C8_CheckThenPipelineIfBound ==
    (AfterDataOp /\ last.op \in GuardedOps) =>
        /\ SuppliedAlternatives = {} =>
               (last.out = "MissingRequiredParameter" /\ ~last.reached /\ NoExchange)
        /\ Cardinality(SuppliedAlternatives) = 1 =>
               /\ last.out # "MissingRequiredParameter"
               /\ \/ last.reached
                  \/ last.op = "upload_one_file" /\ last.args.data /\ last.out = "TypeError"

\* C8's case: a client with no token and no session has refused a checked
\* operation for its missing parameter.
C8_Witness ==
    /\ AfterDataOp /\ last.op \in GuardedOps /\ SuppliedAlternatives = {}
    /\ token = NoToken /\ Disconnected
    /\ last.out = "MissingRequiredParameter"

\* C9: the parameters a call sends are the keys its caller supplied and, if
\* it requires authentication, auth: nothing of an earlier call.
C9_ParametersArePerCall ==
    (AfterDataOp /\ last.reached) =>
        \A i \in 1..Len(last.call.reqs) :
            DOMAIN last.call.reqs[i].params
                \subseteq CallerKeys \cup (IF last.call.auth THEN {"auth"} ELSE {})

\* C10: under every interleaving of tasks, a session the client refers to is
\* not closed, no request is issued on a closed session, and no disconnect
\* clears a session installed while it was suspended.
C10_SessionReferenceIsLive ==
    /\ ~Disconnected => session \notin closed
    /\ ~race.onClosed
    /\ ~race.clearedOther

====
